---------------------------- MODULE Spec2Model ----------------------------
(***************************************************************************)
(* Pool discovery and multiplier tracking (src/src/main.py, storage.py,    *)
(* metrics.py, telegram.py, config.py).                                    *)
(*                                                                         *)
(* Two asyncio tasks run under asyncio.gather: pool_listener (discovery)   *)
(* and monitor_multipliers (scanner).  They share the sqlite table         *)
(* `tokens`.  One action of the model is one uninterrupted run of a task   *)
(* between two awaits; the value an await delivers (an RPC answer, a       *)
(* price, an exception) is chosen by \E from a small set.                  *)
(*                                                                         *)
(* Money is fixed point: a market cap value v stands for v / McScale USD,  *)
(* so supply / 10**decimals * price is exact.  A top-10 percentage is the  *)
(* exact fraction num/den.                                                 *)
(***************************************************************************)
EXTENDS Integers, Sequences, FiniteSets, TLC

(* ------------------------------ bounds -------------------------------- *)
MaxEvents == 2      \* pool candidates the stream delivers in one run
MaxSupply == 3      \* a supply answer is 0..MaxSupply whole tokens
MaxDecimals == 1    \* declared decimals are 0..MaxDecimals
MaxPrice == 1       \* spot price is 0..MaxPrice USD (0: none / not positive)
MaxMcUsd == 3       \* the lookups answer with market caps up to MaxMcUsd USD
MinCapChoice == 1   \* the positive MIN_MARKET_CAP_USD the environment may give
MaxPipeEvents == 1  \* messages PipeSpec takes from the websocket in one run
MaxLogLines == 2    \* "logs" of a notification holds 0..MaxLogLines entries
MaxTokenBalances == 2   \* pre/post token balance lists hold 0..MaxTokenBalances entries
MaxBalance == 2     \* a holder balance drawn freely is 0..MaxBalance
MaxTail == 2        \* freely drawn balances at the end of a holder list

(* ------------------------- program constants -------------------------- *)
DefaultMaxTop10 == 20   \* MAX_TOP10_HOLDER_PERCENT default
TopN == 10              \* top_n default of get_top_holders_percent
DefaultLastMultiple == 1

Mints == {"MINT1", "MINT2"}
Signatures == {"SIG1"}
NoMint == "none"

RECURSIVE Pow10(_)
Pow10(n) == IF n = 0 THEN 1 ELSE 10 * Pow10(n - 1)

McScale == Pow10(MaxDecimals)
Usd(x) == x * McScale

Prices == 0..MaxPrice
\* answers of get_token_supply: raw amount and decimals of s whole tokens
SupplyAnswers ==
    { [amount |-> s * Pow10(d), decimals |-> d] : s \in 0..MaxSupply, d \in 0..MaxDecimals }

RECURSIVE SumSeq(_)
SumSeq(s) == IF s = <<>> THEN 0 ELSE Head(s) + SumSeq(Tail(s))

Take(s, n) == SubSeq(s, 1, IF Len(s) < n THEN Len(s) ELSE n)

Ones(n) == [i \in 1..n |-> 1]

\* holder balance lists the largest-accounts lookup may answer with
HolderLists ==
    { <<>>, <<5>>, Ones(TopN) \o <<40>>, Ones(TopN) \o <<39>>, <<40>> \o Ones(TopN) }

\* transactions the transaction lookup may answer with
NoTx == [found |-> FALSE, meta |-> FALSE, pre |-> <<>>, post |-> <<>>]
NoMeta == [found |-> TRUE, meta |-> FALSE, pre |-> <<>>, post |-> <<>>]
Tx(pre, post) == [found |-> TRUE, meta |-> TRUE, pre |-> pre, post |-> post]
Txs ==
    { NoTx, NoMeta, Tx(<<"MINT1">>, <<"MINT1">>) }
      \cup { Tx(<<>>, <<m>>) : m \in Mints }
      \cup { Tx(<<"MINT1">>, <<"MINT1", "MINT2">>) }

VARIABLES
    settings,      \* config.Settings: thresholds and whether telegram credentials are set
    ledger,        \* table tokens, rows in rowid order
    dpc,           \* where pool_listener / process_new_token is suspended
    dl,            \* locals of process_new_token: mint, price, mc, top10
    nrecv,         \* pool candidates taken from the stream so far
    spc,           \* where monitor_multipliers is suspended
    rows,          \* rows of the current sweep not yet finished (head: current)
    sl,            \* locals of the sweep: price, mc, hit, and what send_message did
    sweep_aborted, \* the current iteration logged "Error in monitor_multipliers"
    sweep_sent,    \* milestone send_message calls per mint in the current sweep
    adm_sent,      \* admission send_message calls per mint
    ws_msg,        \* msg of _logs_stream: what the last ws.recv() returned
    found,         \* found of watch_new_pools: what _extract_pool_creation returned
    answer         \* what the await of the last discovery step delivered

vars == << settings, ledger, dpc, dl, nrecv, spc, rows, sl, sweep_aborted,
           sweep_sent, adm_sent, ws_msg, found, answer >>

(* ------------------------------ storage.py ---------------------------- *)
HasMint(tab, m) == \E i \in 1..Len(tab) : tab[i].mint = m

RowOf(tab, m) == tab[CHOOSE i \in 1..Len(tab) : tab[i].mint = m]

\* upsert_token as INSERT OR REPLACE: a known mint gets a fresh row
upsert_token_replace(tab, mint, symbol, name, initial_mc_usd) ==
    IF HasMint(tab, mint)
    THEN [i \in 1..Len(tab) |->
            IF tab[i].mint = mint
            THEN [mint |-> mint, symbol |-> symbol, name |-> name,
                  initial_mc_usd |-> initial_mc_usd,
                  last_multiple |-> DefaultLastMultiple]
            ELSE tab[i]]
    ELSE Append(tab, [mint |-> mint, symbol |-> symbol, name |-> name,
                      initial_mc_usd |-> initial_mc_usd,
                      last_multiple |-> DefaultLastMultiple])

\* upsert_token whose DO UPDATE also sets initial_mc_usd=excluded.initial_mc_usd
upsert_token_rebase(tab, mint, symbol, name, initial_mc_usd) ==
    IF HasMint(tab, mint)
    THEN [i \in 1..Len(tab) |->
            IF tab[i].mint = mint
            THEN [tab[i] EXCEPT !.symbol = symbol, !.name = name,
                                !.initial_mc_usd = initial_mc_usd]
            ELSE tab[i]]
    ELSE Append(tab, [mint |-> mint, symbol |-> symbol, name |-> name,
                      initial_mc_usd |-> initial_mc_usd,
                      last_multiple |-> DefaultLastMultiple])

\* INSERT ... VALUES (?, ?, ?, ?, 1) ON CONFLICT(mint) DO UPDATE SET symbol, name
upsert_token(tab, mint, symbol, name, initial_mc_usd) ==
    IF HasMint(tab, mint)
    THEN [i \in 1..Len(tab) |->
            IF tab[i].mint = mint
            THEN [tab[i] EXCEPT !.symbol = symbol, !.name = name]
            ELSE tab[i]]
    ELSE Append(tab, [mint |-> mint, symbol |-> symbol, name |-> name,
                      initial_mc_usd |-> initial_mc_usd,
                      last_multiple |-> DefaultLastMultiple])

\* update_last_multiple without its WHERE clause
update_last_multiple_all(tab, mint, multiple) ==
    [i \in 1..Len(tab) |-> [tab[i] EXCEPT !.last_multiple = multiple]]

\* UPDATE tokens SET last_multiple=? WHERE mint=?
update_last_multiple(tab, mint, multiple) ==
    [i \in 1..Len(tab) |->
        IF tab[i].mint = mint THEN [tab[i] EXCEPT !.last_multiple = multiple]
        ELSE tab[i]]

\* SELECT mint, initial_mc_usd, last_multiple FROM tokens
select_rows(tab) ==
    [i \in 1..Len(tab) |->
        [mint |-> tab[i].mint, initial_mc_usd |-> tab[i].initial_mc_usd,
         last_multiple |-> tab[i].last_multiple]]

(* ------------------------------ metrics.py ---------------------------- *)
\* the market cap without the division by 10**decimals
compute_market_cap_usd_raw_supply(supply, decimals, price_usd) ==
    supply * Pow10(MaxDecimals) * price_usd

\* supply / 10**decimals * price_usd, in units of 1/McScale USD
compute_market_cap_usd(supply, decimals, price_usd) ==
    supply * Pow10(MaxDecimals - decimals) * price_usd

\* (sum(amounts[:top_n]) / sum(amounts)) * 100, or 0.0 when the total is 0
get_top_holders_percent(amounts) ==
    LET total_amount == SumSeq(amounts)
        top_sum == SumSeq(Take(amounts, TopN))
    IN IF total_amount = 0 THEN [num |-> 0, den |-> 1]
       ELSE [num |-> top_sum * 100, den |-> total_amount]

RECURSIVE FirstNew(_, _)
FirstNew(post, pre_mints) ==
    IF post = <<>> THEN NoMint
    ELSE IF Head(post) \notin pre_mints THEN Head(post)
    ELSE FirstNew(Tail(post), pre_mints)

\* the resolver without the `not in pre_mints` test: the first post-balance mint
derive_base_mint_from_tx_first_post(tx) ==
    IF ~tx.found THEN NoMint
    ELSE IF ~tx.meta THEN NoMint
    ELSE FirstNew(tx.post, {})

\* tx.value is None: None; meta is None: None; else the first b.mint of
\* post_token_balances not in pre_mints, or None
derive_base_mint_from_tx(tx) ==
    IF ~tx.found THEN NoMint
    ELSE IF ~tx.meta THEN NoMint
    ELSE FirstNew(tx.post, { tx.pre[i] : i \in 1..Len(tx.pre) })

(* --------------------------- solana_watcher.py ------------------------ *)
\* Text is a sequence of characters, so that lower() and the substring test
\* of the filter are computed.
UpperCase == <<"A", "B", "C", "D", "E", "F", "G", "H", "I", "J", "K", "L", "M", "N", "O", "P", "Q", "R", "S", "T", "U", "V", "W", "X", "Y", "Z">>
LowerCase == <<"a", "b", "c", "d", "e", "f", "g", "h", "i", "j", "k", "l", "m", "n", "o", "p", "q", "r", "s", "t", "u", "v", "w", "x", "y", "z">>

\* str.lower() on one character, and on a text
LowerChar(c) ==
    IF \E i \in 1..Len(UpperCase) : UpperCase[i] = c
    THEN LowerCase[CHOOSE i \in 1..Len(UpperCase) : UpperCase[i] = c]
    ELSE c
Lower(text) == [i \in 1..Len(text) |-> LowerChar(text[i])]

\* needle in hay, for two texts
Contains(hay, needle) ==
    \E i \in 1..(Len(hay) - Len(needle) + 1) :
        SubSeq(hay, i, i + Len(needle) - 1) = needle

KwInitialize == <<"i", "n", "i", "t", "i", "a", "l", "i", "z", "e">>
KwCreatePool == <<"c", "r", "e", "a", "t", "e", "_", "p", "o", "o", "l">>
KwInitPool == <<"i", "n", "i", "t", "_", "p", "o", "o", "l">>

\* One entry of "logs": a JSON string (isstr) with its text, or a JSON value of
\* another type (here the list ["initialize"], written with the text it holds).
LogLine(text) == [isstr |-> TRUE, text |-> text]
NotAString(text) == [isstr |-> FALSE, text |-> text]
LineInitialize2 == LogLine(<<"P", "r", "o", "g", "r", "a", "m", " ", "l", "o", "g", ":", " ", "i", "n", "i", "t", "i", "a", "l", "i", "z", "e", "2">>)
LineInitPoolUpper == LogLine(<<"l", "o", "g", ":", " ", "I", "N", "I", "T", "_", "P", "O", "O", "L">>)
LineCreatePoolMixed == LogLine(<<"C", "r", "e", "a", "t", "e", "_", "P", "o", "o", "l">>)
LineSwap == LogLine(<<"P", "r", "o", "g", "r", "a", "m", " ", "l", "o", "g", ":", " ", "s", "w", "a", "p">>)
LineInitSpacePool == LogLine(<<"i", "n", "i", "t", " ", "p", "o", "o", "l">>)
LineListInitialize == NotAString(KwInitialize)
LogLines ==
    { LineInitialize2, LineInitPoolUpper, LineCreatePoolMixed, LineSwap,
      LineInitSpacePool, LineListInitialize }

\* all sequences over S of length 0..n
RECURSIVE SeqsUpTo(_, _)
SeqsUpTo(S, n) ==
    IF n = 0 THEN { <<>> }
    ELSE LET shorter == SeqsUpTo(S, n - 1)
         IN shorter \cup { Append(q, x) : q \in { r \in shorter : Len(r) = n - 1 }, x \in S }

\* "signature" of the notification: a string, the empty string, or absent/null
NoSignature == "None"
SignatureFields == Signatures \cup { "", NoSignature }

\* A websocket message.  json is what json.loads makes of it: "invalid" (it
\* raises), a JSON null / number / string / list, or an object; text and list
\* are told apart by whether `"method" in data` is true of them.  For an object,
\* method is "missing", "logsNotification" or "other"; params, result and value
\* are "missing", "null", "other" (a list, string or number) or "object"; logs is
\* "missing", "null", "number" or "list" with its lines.
Msg(json, method, params, result, value, logs, lines, signature) ==
    [json |-> json, method |-> method, params |-> params, result |-> result,
     value |-> value, logs |-> logs, lines |-> lines, signature |-> signature]
NoMsg == Msg("none", "missing", "missing", "missing", "missing", "missing", <<>>, NoSignature)
NonObject(json) == Msg(json, "missing", "missing", "missing", "missing", "missing", <<>>, NoSignature)
Notification(params, result, value, logs, lines, signature) ==
    Msg("object", "logsNotification", params, result, value, logs, lines, signature)

NonObjectKinds ==
    { "invalid", "null", "number", "string", "string_method", "list", "list_method" }
FieldKinds == { "missing", "null", "other", "object" }
Messages ==
    { NonObject(j) : j \in NonObjectKinds }
      \cup { Msg("object", m, "missing", "missing", "missing", "missing", <<>>, NoSignature) :
               m \in { "missing", "other" } }
      \cup { Notification(k, "missing", "missing", "missing", <<>>, NoSignature) :
               k \in FieldKinds \ { "object" } }
      \cup { Notification("object", k, "missing", "missing", <<>>, NoSignature) :
               k \in FieldKinds \ { "object" } }
      \cup { Notification("object", "object", k, "missing", <<>>, NoSignature) :
               k \in FieldKinds \ { "object" } }
      \cup { Notification("object", "object", "object", k, <<>>, sig) :
               k \in { "missing", "null", "number" }, sig \in SignatureFields }
      \cup { Notification("object", "object", "object", "list", lines, sig) :
               lines \in SeqsUpTo(LogLines, MaxLogLines), sig \in SignatureFields }

\* try: data = json.loads(msg) except Exception: continue
json_loads_fails(msg) == msg.json = "invalid"

\* `"method" in data`: a key test on a dict, a membership test on a list, a
\* substring test on a str, TypeError on None and on a number
method_in_data(msg) ==
    CASE msg.json = "object" -> IF msg.method # "missing" THEN "true" ELSE "false"
      [] msg.json \in { "string_method", "list_method" } -> "true"
      [] msg.json \in { "string", "list" } -> "false"
      [] OTHER -> "TypeError"

\* One iteration of the while True of _logs_stream on a received message:
\* "continue", "yield", or the exception that leaves the generator.
logs_stream_step(msg) ==
    IF json_loads_fails(msg) THEN "continue"
    ELSE IF method_in_data(msg) = "TypeError" THEN "TypeError"
    ELSE IF method_in_data(msg) = "false" THEN "continue"
    ELSE IF msg.json # "object" THEN "AttributeError"   \* data.get on a str / list
    ELSE IF msg.method = "logsNotification" THEN "yield"
    ELSE "continue"

\* d.get(key, {}) followed by a .get on what it returned: a missing key gives
\* {}, a present key gives its value, and only a dict has .get
GetThenGet(kind) == IF kind \in { "missing", "object" } THEN "ok" ELSE "AttributeError"

\* the keyword test without lower()
line_matches_case_sensitive(line) ==
    line.isstr /\ ( \/ Contains(line.text, KwInitialize)
                    \/ Contains(line.text, KwCreatePool)
                    \/ Contains(line.text, KwInitPool) )

\* isinstance(line, str) and ("initialize" in line.lower() or
\* "create_pool" in line.lower() or "init_pool" in line.lower())
line_matches(line) ==
    line.isstr /\ ( \/ Contains(Lower(line.text), KwInitialize)
                    \/ Contains(Lower(line.text), KwCreatePool)
                    \/ Contains(Lower(line.text), KwInitPool) )

\* for line in logs: if <line matches>: return {...}; after the loop: return None
RECURSIVE extract_lines(_)
extract_lines(lines) ==
    IF lines = <<>> THEN FALSE
    ELSE IF line_matches(Head(lines)) THEN TRUE
    ELSE extract_lines(Tail(lines))

NotCalled == [ret |-> "not_called", signature |-> NoSignature]
None == [ret |-> "None", signature |-> NoSignature]
PoolCreation(signature) == [ret |-> "dict", signature |-> signature]
Raised(exc) == [ret |-> exc, signature |-> NoSignature]

\* _extract_pool_creation(event) for an event _logs_stream yielded: the dict
\* with the signature, None, or the exception raised
_extract_pool_creation(event) ==
    IF GetThenGet(event.params) # "ok" THEN Raised("AttributeError")   \* params.get
    ELSE IF event.params = "missing" THEN None
    ELSE IF GetThenGet(event.result) # "ok" THEN Raised("AttributeError")  \* result.get
    ELSE IF event.result = "missing" THEN None
    ELSE IF GetThenGet(event.value) # "ok" THEN Raised("AttributeError")   \* value.get
    ELSE IF event.value = "missing" THEN None
    ELSE IF event.logs \in { "null", "number" } THEN Raised("TypeError")   \* for line in logs
    ELSE IF event.logs = "missing" THEN None
    ELSE IF extract_lines(event.lines) THEN PoolCreation(event.signature)
    ELSE None

(* ------------------------------ telegram.py --------------------------- *)
\* send_message without the try/except around requests.post
send_message_unguarded(net) ==
    IF ~settings.telegram_set THEN [outcome |-> "noop", raised |-> FALSE]
    ELSE IF net = "ok" THEN [outcome |-> "posted", raised |-> FALSE]
    ELSE [outcome |-> "error", raised |-> TRUE]

\* What one call of send_message does, given what the HTTP post does
\* ("ok": answered, "error": requests.post raises).
send_message(net) ==
    IF ~settings.telegram_set THEN [outcome |-> "noop", raised |-> FALSE]
    ELSE IF net = "ok" THEN [outcome |-> "posted", raised |-> FALSE]
    ELSE [outcome |-> "swallowed", raised |-> FALSE]

NetResults == {"ok", "error"}

(* ------------------------------ main.py ------------------------------- *)
\* the market cap gate with <= for <
BelowMinCap_strict(mc) == mc <= Usd(settings.min_market_cap_usd)

\* mc < settings.min_market_cap_usd
BelowMinCap(mc) == mc < Usd(settings.min_market_cap_usd)

\* top10 > settings.max_top10_holder_percent
AboveMaxTop10(top10) == top10.num > settings.max_top10_holder_percent * top10.den

\* the two gates of process_new_token, in the order of the code
admission_gates(mc, top10) ==
    IF BelowMinCap(mc) THEN "low_mc"
    ELSE IF AboveMaxTop10(top10) THEN "top10"
    ELSE "pass"

\* if initial_mc_usd <= 0: continue
baseline_invalid(initial_mc_usd) == initial_mc_usd <= 0

\* round(mc / initial_mc_usd) for floor
multiple_hit_round(mc, initial_mc_usd) == (2 * mc + initial_mc_usd) \div (2 * initial_mc_usd)

\* floor(mc / initial_mc_usd)
multiple_hit(mc, initial_mc_usd) == mc \div initial_mc_usd

\* the target without the + 1
multiple_target_same(last_multiple) ==
    IF last_multiple > 2 THEN last_multiple ELSE 2

\* max(last_multiple + 1, 2)
multiple_target(last_multiple) ==
    IF last_multiple + 1 > 2 THEN last_multiple + 1 ELSE 2

\* An exception raised inside process_new_token or the stream: neither it nor
\* pool_listener has a handler, so the task ends with the exception.
pool_listener_on_exception(exc) == "raised"

\* the loop body without its try/except
monitor_on_exception_uncaught(exc) ==
    IF exc = "Exception" THEN "raised" ELSE "cancelled"

\* try: <sweep> except Exception: log; then sleep.  CancelledError derives
\* from BaseException and is not caught.
monitor_on_exception(exc) ==
    IF exc = "Exception" THEN "sleep" ELSE "cancelled"

NoLocals == [mint |-> NoMint, price |-> 0, mc |-> 0, top10 |-> [num |-> 0, den |-> 1]]
NoSweepLocals == [price |-> 0, mc |-> 0, hit |-> 0, sent |-> "none"]
NoAnswer == [kind |-> "none"]

Init ==
    /\ settings \in [min_market_cap_usd : {0, MinCapChoice},
                     max_top10_holder_percent : {DefaultMaxTop10},
                     telegram_set : BOOLEAN]
    /\ ledger = <<>>
    /\ dpc = "recv"
    /\ dl = NoLocals
    /\ nrecv = 0
    /\ spc = "select"
    /\ rows = <<>>
    /\ sl = NoSweepLocals
    /\ sweep_aborted = FALSE
    /\ sweep_sent = [m \in Mints |-> 0]
    /\ adm_sent = [m \in Mints |-> 0]
    /\ ws_msg = NoMsg
    /\ found = NotCalled
    /\ answer = NoAnswer

DiscVars == << dpc, dl, nrecv, adm_sent >>
ScanVars == << spc, rows, sl, sweep_aborted, sweep_sent >>
\* the inputs PipeSpec records; Spec abstracts from them
InputVars == << ws_msg, found, answer >>


DiscFail ==
    /\ dpc' = pool_listener_on_exception("Exception")
    /\ dl' = NoLocals

\* back in pool_listener, waiting for the next item of watch_new_pools()
DiscNext ==
    /\ dpc' = "recv"
    /\ dl' = NoLocals

(* ---------------- discovery: pool_listener, process_new_token --------- *)
\* pool_listener that starts process_new_token as a task of its own
\* (asyncio.create_task) and takes the next event without awaiting it
ListenRecv_spawn ==
    /\ dpc # "raised"
    /\ nrecv < MaxEvents
    /\ \E signature \in Signatures \cup {""} :
          /\ nrecv' = nrecv + 1
          /\ dpc' = IF signature = "" THEN dpc ELSE "derive"
    /\ UNCHANGED << dl, adm_sent, settings, ledger >>
    /\ UNCHANGED ScanVars
    /\ UNCHANGED InputVars

\* async for pool in watch_new_pools(): signature = pool.get("signature") or ""
ListenRecv ==
    /\ dpc = "recv"
    /\ nrecv < MaxEvents
    /\ \E signature \in Signatures \cup {""} :
          /\ nrecv' = nrecv + 1
          /\ dpc' = IF signature = "" THEN "recv" ELSE "derive"
    /\ UNCHANGED << dl, adm_sent, settings, ledger >>
    /\ UNCHANGED ScanVars
    /\ UNCHANGED InputVars

\* the websocket fails or closes: recv() raises inside _logs_stream
ListenStreamError ==
    /\ dpc = "recv"
    /\ DiscFail
    /\ UNCHANGED << nrecv, adm_sent, settings, ledger >>
    /\ UNCHANGED ScanVars
    /\ UNCHANGED InputVars

\* mint = await derive_base_mint_from_tx(client, signature)
ProcDerive ==
    /\ dpc = "derive"
    /\ \/ DiscFail
       \/ \E tx \in Txs :
            LET mint == derive_base_mint_from_tx(tx)
            IN IF mint = NoMint THEN DiscNext
               ELSE /\ dpc' = "price"
                    /\ dl' = [dl EXCEPT !.mint = mint]
    /\ UNCHANGED << nrecv, adm_sent, settings, ledger >>
    /\ UNCHANGED ScanVars
    /\ UNCHANGED InputVars

\* price = await fetch_price_usd_for_mint(mint) or 0.0  (never raises)
ProcPrice ==
    /\ dpc = "price"
    /\ \E price \in Prices :
          IF price <= 0 THEN DiscNext
          ELSE /\ dpc' = "supply"
               /\ dl' = [dl EXCEPT !.price = price]
    /\ UNCHANGED << nrecv, adm_sent, settings, ledger >>
    /\ UNCHANGED ScanVars
    /\ UNCHANGED InputVars

\* mc = await compute_market_cap_usd(client, mint, price)
ProcSupply ==
    /\ dpc = "supply"
    /\ \/ DiscFail
       \/ \E a \in SupplyAnswers :
            LET mc == compute_market_cap_usd(a.amount, a.decimals, dl.price)
            IN /\ mc <= Usd(MaxMcUsd)
               /\ dpc' = "holders"
               /\ dl' = [dl EXCEPT !.mc = mc]
    /\ UNCHANGED << nrecv, adm_sent, settings, ledger >>
    /\ UNCHANGED ScanVars
    /\ UNCHANGED InputVars

\* top10 = await get_top_holders_percent(client, mint)
ProcHolders ==
    /\ dpc = "holders"
    /\ \/ DiscFail
       \/ \E amounts \in HolderLists :
            /\ dpc' = "gates"
            /\ dl' = [dl EXCEPT !.top10 = get_top_holders_percent(amounts)]
    /\ UNCHANGED << nrecv, adm_sent, settings, ledger >>
    /\ UNCHANGED ScanVars
    /\ UNCHANGED InputVars

\* if mc < min: return; if top10 > max: return; otherwise go on to upsert_token
ProcGates ==
    /\ dpc = "gates"
    /\ IF admission_gates(dl.mc, dl.top10) = "pass"
       THEN dpc' = "upsert" /\ UNCHANGED dl
       ELSE DiscNext
    /\ UNCHANGED << nrecv, adm_sent, settings, ledger >>
    /\ UNCHANGED ScanVars
    /\ UNCHANGED InputVars

\* process_new_token that catches a failed upsert_token and notifies anyway
ProcUpsert_swallow ==
    /\ dpc = "upsert"
    /\ \/ /\ dpc' = "send"
          /\ UNCHANGED << dl, ledger >>
       \/ /\ ledger' = upsert_token(ledger, dl.mint, "?", "?", dl.mc)
          /\ dpc' = "send"
          /\ UNCHANGED dl
    /\ UNCHANGED << nrecv, adm_sent, settings >>
    /\ UNCHANGED ScanVars
    /\ UNCHANGED InputVars

\* await upsert_token(mint, symbol="?", name="?", initial_mc_usd=mc)
ProcUpsert ==
    /\ dpc = "upsert"
    /\ \/ DiscFail /\ UNCHANGED ledger
       \/ /\ ledger' = upsert_token(ledger, dl.mint, "?", "?", dl.mc)
          /\ dpc' = "send"
          /\ UNCHANGED dl
    /\ UNCHANGED << nrecv, adm_sent, settings >>
    /\ UNCHANGED ScanVars
    /\ UNCHANGED InputVars

\* process_new_token that notifies a mint only the first time it is admitted
ProcSend_dedup ==
    /\ dpc = "send"
    /\ \E net \in NetResults :
          LET r == send_message(net)
          IN /\ adm_sent' = IF adm_sent[dl.mint] >= 1 THEN adm_sent
                            ELSE [adm_sent EXCEPT ![dl.mint] = @ + 1]
             /\ IF r.raised THEN DiscFail ELSE DiscNext
    /\ UNCHANGED << nrecv, settings, ledger >>
    /\ UNCHANGED ScanVars
    /\ UNCHANGED InputVars

\* send_message(FILTER_MSG_TEMPLATE.format(...)); process_new_token returns
ProcSend ==
    /\ dpc = "send"
    /\ \E net \in NetResults :
          LET r == send_message(net)
          IN /\ adm_sent' = [adm_sent EXCEPT ![dl.mint] = @ + 1]
             /\ IF r.raised THEN DiscFail ELSE DiscNext
    /\ UNCHANGED << nrecv, settings, ledger >>
    /\ UNCHANGED ScanVars
    /\ UNCHANGED InputVars


(* ---------------------- scanner: monitor_multipliers ------------------ *)
\* an exception (or a cancellation) reaches the try/except of the loop body
ScanRaise(exc) ==
    /\ spc' = monitor_on_exception(exc)
    /\ rows' = <<>>
    /\ sl' = NoSweepLocals
    /\ sweep_aborted' = (exc = "Exception" /\ monitor_on_exception(exc) = "sleep")

\* continue / end of the loop body: next row, or out of the for loop to sleep
ScanNextRow ==
    /\ rows' = Tail(rows)
    /\ spc' = IF Tail(rows) = <<>> THEN "sleep" ELSE "price"
    /\ sl' = NoSweepLocals
    /\ UNCHANGED sweep_aborted

\* aiosqlite.connect, SELECT ..., rows = await cur.fetchall()
ScanSelect ==
    /\ spc = "select"
    /\ \/ ScanRaise("Exception")
       \/ /\ rows' = select_rows(ledger)
          /\ spc' = IF ledger = <<>> THEN "sleep" ELSE "price"
          /\ UNCHANGED << sl, sweep_aborted >>
    /\ UNCHANGED << sweep_sent, settings, ledger >>
    /\ UNCHANGED DiscVars
    /\ UNCHANGED InputVars

\* price = await fetch_price_usd_for_mint(mint) or 0.0; if price <= 0: continue
ScanPrice ==
    /\ spc = "price"
    /\ \E price \in Prices :
          IF price <= 0 THEN ScanNextRow
          ELSE /\ spc' = "supply"
               /\ sl' = [sl EXCEPT !.price = price]
               /\ UNCHANGED << rows, sweep_aborted >>
    /\ UNCHANGED << sweep_sent, settings, ledger >>
    /\ UNCHANGED DiscVars
    /\ UNCHANGED InputVars

\* mc = await compute_market_cap_usd(client, mint, price)
ScanSupply ==
    /\ spc = "supply"
    /\ \/ ScanRaise("Exception")
       \/ \E a \in SupplyAnswers :
            LET mc == compute_market_cap_usd(a.amount, a.decimals, sl.price)
            IN /\ mc <= Usd(MaxMcUsd)
               /\ spc' = "eval"
               /\ sl' = [sl EXCEPT !.mc = mc]
               /\ UNCHANGED << rows, sweep_aborted >>
    /\ UNCHANGED << sweep_sent, settings, ledger >>
    /\ UNCHANGED DiscVars
    /\ UNCHANGED InputVars

\* if initial_mc_usd <= 0: continue; target, hit; if hit >= target: send_message(...)
ScanEval ==
    /\ spc = "eval"
    /\ LET row == Head(rows)
       IN IF baseline_invalid(row.initial_mc_usd)
          THEN ScanNextRow /\ UNCHANGED sweep_sent
          ELSE IF row.initial_mc_usd = 0
          THEN \* mc / initial_mc_usd raises ZeroDivisionError
               ScanRaise("Exception") /\ UNCHANGED sweep_sent
          ELSE LET target == multiple_target(row.last_multiple)
                   hit == multiple_hit(sl.mc, row.initial_mc_usd)
               IN IF hit >= target
                  THEN \E net \in NetResults :
                         LET r == send_message(net)
                         IN /\ sweep_sent' = [sweep_sent EXCEPT ![row.mint] = @ + 1]
                            /\ IF r.raised THEN ScanRaise("Exception")
                               ELSE /\ spc' = "update"
                                    /\ sl' = [sl EXCEPT !.hit = hit, !.sent = r.outcome]
                                    /\ UNCHANGED << rows, sweep_aborted >>
                  ELSE ScanNextRow /\ UNCHANGED sweep_sent
    /\ UNCHANGED << settings, ledger >>
    /\ UNCHANGED DiscVars
    /\ UNCHANGED InputVars

\* await update_last_multiple(mint, hit)
ScanUpdate ==
    /\ spc = "update"
    /\ \/ ScanRaise("Exception") /\ UNCHANGED ledger
       \/ /\ ledger' = update_last_multiple(ledger, Head(rows).mint, sl.hit)
          /\ ScanNextRow
    /\ UNCHANGED << sweep_sent, settings >>
    /\ UNCHANGED DiscVars
    /\ UNCHANGED InputVars

\* await asyncio.sleep(45) is over: next iteration of while True
ScanWake ==
    /\ spc = "sleep"
    /\ spc' = "select"
    /\ sweep_aborted' = FALSE
    /\ sweep_sent' = [m \in Mints |-> 0]
    /\ UNCHANGED << rows, sl, settings, ledger >>
    /\ UNCHANGED DiscVars
    /\ UNCHANGED InputVars

(* ------------------------ main: asyncio.gather ------------------------ *)
ScanAwaiting == spc \in {"select", "price", "supply", "update", "sleep"}

\* pool_listener ended with an exception: gather re-raises it in main, main
\* ends, and asyncio.run cancels the tasks still pending.
CancelScanner ==
    /\ dpc = "raised"
    /\ ScanAwaiting
    /\ ScanRaise("CancelledError")
    /\ UNCHANGED << sweep_sent, settings, ledger >>
    /\ UNCHANGED DiscVars
    /\ UNCHANGED InputVars

Next ==
    \/ ListenRecv
    \/ ListenStreamError
    \/ ProcDerive
    \/ ProcPrice
    \/ ProcSupply
    \/ ProcHolders
    \/ ProcGates
    \/ ProcUpsert
    \/ ProcSend
    \/ ScanSelect
    \/ ScanPrice
    \/ ScanSupply
    \/ ScanEval
    \/ ScanUpdate
    \/ ScanWake
    \/ CancelScanner

Spec == Init /\ [][Next]_vars

(* ------------- the discovery path with its inputs recorded ------------- *)
(* PipeSpec is the discovery task alone (watch_new_pools, pool_listener,   *)
(* process_new_token), one action per await as in Spec, with what each     *)
(* await delivered kept in ws_msg, found and answer until the next step.   *)
(* It counts money in 1/PriceScale USD, so that a price of 0.002 USD is    *)
(* the integer 2; the scanner does not run.                                *)
PriceScale == 1000
DefaultMinMarketCapUsd == 15000   \* MIN_MARKET_CAP_USD default

\* the end-to-end scenario: price 0.002; supply 500_000_000_000 at 9 decimals,
\* counted in units of 10^8 of the smallest unit (5000 units, 10 to a token)
ScenarioPrice == 2
ScenarioSupply == 5000
ScenarioDecimals == 9
SupplyUnitDigits == 8
ScenarioSupplyAnswer ==
    [amount |-> ScenarioSupply, decimals |-> ScenarioDecimals - SupplyUnitDigits]
ScenarioMinCap == DefaultMinMarketCapUsd * PriceScale

PipePrices == 0..ScenarioPrice
PipeSupplyAnswers == SupplyAnswers \cup { ScenarioSupplyAnswer }
PipeTxs ==
    { NoTx, NoMeta }
      \cup { Tx(pre, post) : pre \in SeqsUpTo(Mints, MaxTokenBalances),
                             post \in SeqsUpTo(Mints, MaxTokenBalances) }
PipeHolderLists ==
    HolderLists
      \cup { prefix \o tail : prefix \in { <<>>, Ones(TopN - 1) },
                              tail \in SeqsUpTo(0..MaxBalance, MaxTail) }

PipeInit ==
    /\ settings \in [min_market_cap_usd : {0, MinCapChoice, ScenarioMinCap},
                     max_top10_holder_percent : {DefaultMaxTop10},
                     telegram_set : BOOLEAN]
    /\ ledger = <<>>
    /\ dpc = "recv"
    /\ dl = NoLocals
    /\ nrecv = 0
    /\ spc = "select"
    /\ rows = <<>>
    /\ sl = NoSweepLocals
    /\ sweep_aborted = FALSE
    /\ sweep_sent = [m \in Mints |-> 0]
    /\ adm_sent = [m \in Mints |-> 0]
    /\ ws_msg = NoMsg
    /\ found = NotCalled
    /\ answer = NoAnswer

\* signature = pool.get("signature") or ""
pool_signature(pool) ==
    IF pool.signature = NoSignature THEN "" ELSE pool.signature

\* Where pool_listener is after ws.recv() returned msg: _logs_stream's
\* iteration, _extract_pool_creation, `if found: yield found`, and
\* `if not signature: continue`, up to the next await.
after_recv(msg) ==
    LET step == logs_stream_step(msg)
        pool == _extract_pool_creation(msg)
    IN IF step = "continue" THEN "recv"
       ELSE IF step # "yield" THEN pool_listener_on_exception(step)
       ELSE IF pool.ret = "None" THEN "recv"
       ELSE IF pool.ret # "dict" THEN pool_listener_on_exception(pool.ret)
       ELSE IF pool_signature(pool) = "" THEN "recv"
       ELSE "derive"

\* what one ws.recv() can lead to: the message, what _extract_pool_creation
\* returned if it was called, and where pool_listener is afterwards
RecvSteps ==
    { [msg |-> msg,
       found |-> IF logs_stream_step(msg) = "yield"
                 THEN _extract_pool_creation(msg) ELSE NotCalled,
       pc |-> after_recv(msg)] : msg \in Messages }

\* msg = await ws.recv() ... up to await client.get_transaction(signature)
PipeRecv ==
    /\ dpc = "recv"
    /\ nrecv < MaxPipeEvents
    /\ \E step \in RecvSteps :
          /\ ws_msg' = step.msg
          /\ found' = step.found
          /\ dpc' = step.pc
    /\ nrecv' = nrecv + 1
    /\ dl' = NoLocals
    /\ answer' = NoAnswer
    /\ UNCHANGED << adm_sent, settings, ledger >>
    /\ UNCHANGED ScanVars

\* the websocket fails or closes: recv() raises inside _logs_stream
PipeClosed ==
    /\ dpc = "recv"
    /\ DiscFail
    /\ ws_msg' = NoMsg
    /\ found' = NotCalled
    /\ answer' = NoAnswer
    /\ UNCHANGED << nrecv, adm_sent, settings, ledger >>
    /\ UNCHANGED ScanVars

\* mint = await derive_base_mint_from_tx(client, signature)
PipeDerive ==
    /\ dpc = "derive"
    /\ \/ DiscFail /\ answer' = [kind |-> "error"]
       \/ \E tx \in PipeTxs :
            LET mint == derive_base_mint_from_tx(tx)
            IN /\ answer' = [kind |-> "tx", tx |-> tx]
               /\ IF mint = NoMint THEN DiscNext
                  ELSE /\ dpc' = "price"
                       /\ dl' = [dl EXCEPT !.mint = mint]
    /\ ws_msg' = NoMsg
    /\ UNCHANGED << found, nrecv, adm_sent, settings, ledger >>
    /\ UNCHANGED ScanVars

\* price = await fetch_price_usd_for_mint(mint) or 0.0  (never raises)
PipePrice ==
    /\ dpc = "price"
    /\ \E price \in PipePrices :
          /\ answer' = [kind |-> "price", price |-> price]
          /\ IF price <= 0 THEN DiscNext
             ELSE /\ dpc' = "supply"
                  /\ dl' = [dl EXCEPT !.price = price]
    /\ UNCHANGED << ws_msg, found, nrecv, adm_sent, settings, ledger >>
    /\ UNCHANGED ScanVars

\* mc = await compute_market_cap_usd(client, mint, price)
PipeSupply ==
    /\ dpc = "supply"
    /\ \/ DiscFail /\ answer' = [kind |-> "error"]
       \/ \E a \in PipeSupplyAnswers :
            /\ answer' = [kind |-> "supply", supply |-> a]
            /\ dpc' = "holders"
            /\ dl' = [dl EXCEPT !.mc = compute_market_cap_usd(a.amount, a.decimals, dl.price)]
    /\ UNCHANGED << ws_msg, found, nrecv, adm_sent, settings, ledger >>
    /\ UNCHANGED ScanVars

\* top10 = await get_top_holders_percent(client, mint)
PipeHolders ==
    /\ dpc = "holders"
    /\ \/ DiscFail /\ answer' = [kind |-> "error"]
       \/ \E amounts \in PipeHolderLists :
            /\ answer' = [kind |-> "holders", amounts |-> amounts]
            /\ dpc' = "gates"
            /\ dl' = [dl EXCEPT !.top10 = get_top_holders_percent(amounts)]
    /\ UNCHANGED << ws_msg, found, nrecv, adm_sent, settings, ledger >>
    /\ UNCHANGED ScanVars

\* if mc < min: return; if top10 > max: return; otherwise go on to upsert_token
PipeGates ==
    /\ dpc = "gates"
    /\ IF admission_gates(dl.mc, dl.top10) = "pass"
       THEN dpc' = "upsert" /\ UNCHANGED dl
       ELSE DiscNext
    /\ answer' = NoAnswer
    /\ UNCHANGED << ws_msg, found, nrecv, adm_sent, settings, ledger >>
    /\ UNCHANGED ScanVars

\* await upsert_token(mint, symbol="?", name="?", initial_mc_usd=mc)
PipeUpsert ==
    /\ dpc = "upsert"
    /\ \/ DiscFail /\ UNCHANGED ledger /\ answer' = [kind |-> "error"]
       \/ /\ ledger' = upsert_token(ledger, dl.mint, "?", "?", dl.mc)
          /\ dpc' = "send"
          /\ answer' = NoAnswer
          /\ UNCHANGED dl
    /\ UNCHANGED << ws_msg, found, nrecv, adm_sent, settings >>
    /\ UNCHANGED ScanVars

\* send_message(FILTER_MSG_TEMPLATE.format(...)); process_new_token returns
PipeSend ==
    /\ dpc = "send"
    /\ \E net \in NetResults :
          LET r == send_message(net)
          IN /\ adm_sent' = [adm_sent EXCEPT ![dl.mint] = @ + 1]
             /\ answer' = [kind |-> "send", outcome |-> r.outcome]
             /\ IF r.raised THEN DiscFail ELSE DiscNext
    /\ UNCHANGED << ws_msg, found, nrecv, settings, ledger >>
    /\ UNCHANGED ScanVars

PipeNext ==
    \/ PipeRecv
    \/ PipeClosed
    \/ PipeDerive
    \/ PipePrice
    \/ PipeSupply
    \/ PipeHolders
    \/ PipeGates
    \/ PipeUpsert
    \/ PipeSend

PipeSpec == PipeInit /\ [][PipeNext]_vars


(* ----------------- the scanner alone, fairly scheduled ----------------- *)
(* LiveSpec starts from a table `tokens` that earlier runs have filled     *)
(* (the sqlite file outlives the process) and a silent websocket: only     *)
(* monitor_multipliers runs, and the event loop keeps running it.  The     *)
(* store is available, and the lookups of HealthyMint always succeed, with *)
(* a market cap at or above its next milestone while it has none yet; the  *)
(* lookups of the other mint answer or fail as they like.                  *)
HealthyMint == "MINT2"

TokenRow(mint, initial_mc_usd) ==
    [mint |-> mint, symbol |-> "?", name |-> "?",
     initial_mc_usd |-> initial_mc_usd, last_multiple |-> DefaultLastMultiple]

\* tables of one or two records, each admitted at 0 or at MinCapChoice USD
LiveLedgers ==
    { << TokenRow(m, Usd(b)) >> : m \in Mints, b \in {0, MinCapChoice} }
      \cup { r \in { << TokenRow(m1, Usd(b1)), TokenRow(m2, Usd(b2)) >> :
                        m1 \in Mints, m2 \in Mints,
                        b1 \in {0, MinCapChoice}, b2 \in {0, MinCapChoice} } :
                r[1].mint # r[2].mint }

LiveInit ==
    /\ settings \in [min_market_cap_usd : {0, MinCapChoice},
                     max_top10_holder_percent : {DefaultMaxTop10},
                     telegram_set : BOOLEAN]
    /\ ledger \in LiveLedgers
    /\ dpc = "recv"
    /\ dl = NoLocals
    /\ nrecv = 0
    /\ spc = "select"
    /\ rows = <<>>
    /\ sl = NoSweepLocals
    /\ sweep_aborted = FALSE
    /\ sweep_sent = [m \in Mints |-> 0]
    /\ adm_sent = [m \in Mints |-> 0]
    /\ ws_msg = NoMsg
    /\ found = NotCalled
    /\ answer = NoAnswer

\* the ledger read succeeds
LiveSelect == ScanSelect /\ ~sweep_aborted'

\* the price lookup of HealthyMint answers a positive price
LivePrice ==
    ScanPrice /\ (Head(rows).mint = HealthyMint => spc' = "supply")

\* the supply lookup of HealthyMint succeeds, and while the record has no
\* milestone yet the market cap is at or above its target multiple
LiveSupply ==
    /\ ScanSupply
    /\ Head(rows).mint = HealthyMint =>
          /\ spc' = "eval"
          /\ (Head(rows).last_multiple = DefaultLastMultiple
                /\ ~baseline_invalid(Head(rows).initial_mc_usd)) =>
               multiple_hit(sl'.mc, Head(rows).initial_mc_usd)
                  >= multiple_target(Head(rows).last_multiple)

\* the last_multiple write succeeds
LiveUpdate == ScanUpdate /\ ~sweep_aborted'

LiveNext ==
    \/ LiveSelect
    \/ LivePrice
    \/ LiveSupply
    \/ ScanEval
    \/ LiveUpdate
    \/ ScanWake

LiveSpec == LiveInit /\ [][LiveNext]_vars /\ WF_vars(LiveNext)

(* ------------- a run that starts on the table of an earlier run ------- *)
\* init_db runs CREATE TABLE IF NOT EXISTS on data.db, so the rows an earlier
\* run wrote are still there; that run read its own MIN_MARKET_CAP_USD, so a
\* row's baseline need not reach the threshold of this run
PersistedLedgers ==
    { << TokenRow(m, Usd(0)) >> : m \in {"MINT1"} }

RestartInit ==
    /\ settings \in [min_market_cap_usd : {0, MinCapChoice},
                     max_top10_holder_percent : {DefaultMaxTop10},
                     telegram_set : BOOLEAN]
    /\ ledger \in PersistedLedgers
    /\ dpc = "recv"
    /\ dl = NoLocals
    /\ nrecv = 0
    /\ spc = "select"
    /\ rows = <<>>
    /\ sl = NoSweepLocals
    /\ sweep_aborted = FALSE
    /\ sweep_sent = [m \in Mints |-> 0]
    /\ adm_sent = [m \in Mints |-> 0]
    /\ ws_msg = NoMsg
    /\ found = NotCalled
    /\ answer = NoAnswer

RestartSpec == RestartInit /\ [][Next]_vars

(* ------------------------------ properties ---------------------------- *)
LastMultiple(tab, m) == RowOf(tab, m).last_multiple
Baseline(tab, m) == RowOf(tab, m).initial_mc_usd

\* C1: the stored last_multiple of a mint never decreases, whatever admissions,
\* re-admissions and sweeps interleave, and the only step that changes it is
\* the scanner's update_last_multiple call for that mint, with the hit it holds.
C1_LastMultipleOnlyGrowsByScanner ==
    [][\A m \in Mints :
         HasMint(ledger, m) =>
           /\ HasMint(ledger', m)
           /\ LastMultiple(ledger', m) >= LastMultiple(ledger, m)
           /\ LastMultiple(ledger', m) # LastMultiple(ledger, m) =>
                /\ spc = "update"
                /\ Head(rows).mint = m
                /\ LastMultiple(ledger', m) = sl.hit
                /\ dpc' = dpc]_vars

\* a mint whose multiple the scanner has raised is admitted a second time
C1_Witness ==
    \E m \in Mints :
        /\ HasMint(ledger, m)
        /\ LastMultiple(ledger, m) >= 2
        /\ adm_sent[m] = 2

\* C2: upsert_token on a mint already in the ledger changes only symbol and
\* name: the baseline and last_multiple of that record and every other record
\* stay as they were, whatever initial_mc_usd the call passes, and the ledger
\* holds one record per mint.
C2_UpsertKnownMintKeepsRecord ==
    [][/\ (dpc = "upsert" /\ dpc' = "send" /\ HasMint(ledger, dl.mint)) =>
            /\ Len(ledger') = Len(ledger)
            /\ \A i \in 1..Len(ledger) :
                 /\ ledger'[i].mint = ledger[i].mint
                 /\ ledger'[i].initial_mc_usd = ledger[i].initial_mc_usd
                 /\ ledger'[i].last_multiple = ledger[i].last_multiple
                 /\ IF ledger[i].mint = dl.mint
                    THEN ledger'[i].symbol = "?" /\ ledger'[i].name = "?"
                    ELSE ledger'[i] = ledger[i]
       /\ \A i, j \in 1..Len(ledger') :
            i # j => ledger'[i].mint # ledger'[j].mint]_vars

\* a mint admitted before, since raised to 2x or more by the scanner, has been
\* upserted again with another market cap
C2_Witness ==
    /\ dpc = "send"
    /\ adm_sent[dl.mint] >= 1
    /\ HasMint(ledger, dl.mint)
    /\ Baseline(ledger, dl.mint) # dl.mc
    /\ LastMultiple(ledger, dl.mint) >= 2
    /\ Len(ledger) = 1

PassesGates(mc, top10) ==
    /\ mc >= settings.min_market_cap_usd * McScale
    /\ top10.num <= settings.max_top10_holder_percent * top10.den

\* C3: for a resolved mint with price > 0, process_new_token goes on to the
\* ledger write and the admission notification exactly when mc >= min and
\* top10 <= max (both boundaries admitted); a rejection writes nothing and
\* notifies nothing, and every ledger insert and admission notification of the
\* discovery task belongs to an event that passed both gates.
C3_AdmissionIffBothGates ==
    [][/\ (dpc = "gates" /\ dpc' # "gates") =>
            /\ (dpc' = "upsert") <=> PassesGates(dl.mc, dl.top10)
            /\ dpc' # "upsert" =>
                 /\ dpc' = "recv"
                 /\ ledger' = ledger
                 /\ adm_sent' = adm_sent
       /\ (Len(ledger') # Len(ledger) \/ adm_sent' # adm_sent) =>
            /\ dpc \in {"upsert", "send"}
            /\ dl.price > 0
            /\ PassesGates(dl.mc, dl.top10)
       /\ (dpc = "upsert" /\ dpc' = "send") => HasMint(ledger', dl.mint)
       /\ (dpc = "send" /\ dpc' # "send") => adm_sent'[dl.mint] = adm_sent[dl.mint] + 1]_vars

\* an event exactly on both boundaries has been admitted and notified
C3_Witness ==
    /\ dpc = "send"
    /\ settings.min_market_cap_usd > 0
    /\ dl.mc = settings.min_market_cap_usd * McScale
    /\ dl.top10.num = settings.max_top10_holder_percent * dl.top10.den
    /\ HasMint(ledger, dl.mint)

FloorRatio(mc, initial, h) == h * initial <= mc /\ mc < (h + 1) * initial

\* C4: in a sweep, for a record with baseline > 0 and price > 0, with
\* hit = floor(mc / baseline) and target = max(last_multiple + 1, 2): when
\* hit >= target the scanner makes one milestone send_message call carrying hit
\* and goes on to set last_multiple to hit; when hit < target it sends nothing
\* and leaves the record as it is.  No 1x milestone is ever notified.
C4_MilestoneRule ==
    [][/\ (spc = "eval" /\ spc' # "eval" /\ Head(rows).initial_mc_usd > 0) =>
            LET row == Head(rows)
                reached == \E h \in 2..(sl.mc + 1) :
                              /\ FloorRatio(sl.mc, row.initial_mc_usd, h)
                              /\ h >= row.last_multiple + 1
            IN /\ sl.price > 0
               /\ ledger' = ledger
               /\ reached =>
                    /\ sweep_sent'[row.mint] = sweep_sent[row.mint] + 1
                    /\ spc' = "update"
                    /\ rows' = rows
                    /\ FloorRatio(sl.mc, row.initial_mc_usd, sl'.hit)
                    /\ sl'.hit >= 2
               /\ ~reached =>
                    /\ sweep_sent' = sweep_sent
                    /\ spc' # "update"
       /\ (spc = "update" /\ spc' \in {"price", "sleep"} /\ ~sweep_aborted') =>
            /\ LastMultiple(ledger', Head(rows).mint) = sl.hit
            /\ sl.hit >= 2
       /\ (sweep_sent' # sweep_sent /\ spc' = "update") => sl'.hit # 1]_vars

\* a record already notified at 2x or more is evaluated after the price fell
\* back below its last notified multiple
C4_Witness ==
    /\ spc = "eval"
    /\ Head(rows).last_multiple >= 2
    /\ LastMultiple(ledger, Head(rows).mint) = Head(rows).last_multiple
    /\ sl.mc < Head(rows).last_multiple * Head(rows).initial_mc_usd
    /\ sl.mc > 0

\* C5: within one sweep a record gets at most one milestone notification, and
\* when the ratio jumped several integers that one notification carries
\* floor(ratio), which is also what last_multiple is set to.
C5_OneNotificationHighestMultiple ==
    [][/\ \A m \in Mints : sweep_sent'[m] <= 1
       /\ sweep_sent' # sweep_sent /\ spc = "eval" =>
            /\ spc' = "update"
            /\ FloorRatio(sl.mc, Head(rows).initial_mc_usd, sl'.hit)
            /\ sweep_sent'[Head(rows).mint] = 1
       /\ (spc = "update" /\ spc' \in {"price", "sleep"} /\ ~sweep_aborted') =>
            /\ LastMultiple(ledger', Head(rows).mint) = sl.hit
            /\ FloorRatio(sl.mc, Head(rows).initial_mc_usd, sl.hit)]_vars

\* a record at last_multiple 1 was notified once for a jump to 3x or more
C5_Witness ==
    /\ spc = "update"
    /\ Head(rows).last_multiple = 1
    /\ sl.hit >= 3
    /\ sweep_sent[Head(rows).mint] = 1

\* C6: a record whose baseline is <= 0 is skipped by every sweep: no milestone
\* notification is ever sent for it and its last_multiple never changes,
\* whatever price and supply are observed.
C6_ZeroBaselineSkipped ==
    [][\A m \in Mints :
         (HasMint(ledger, m) /\ Baseline(ledger, m) <= 0) =>
           /\ HasMint(ledger', m)
           /\ Baseline(ledger', m) = Baseline(ledger, m)
           /\ LastMultiple(ledger', m) = LastMultiple(ledger, m)
           /\ sweep_sent'[m] = 0]_vars

\* the scanner evaluates a zero-baseline record at a positive market cap while
\* another record has been raised by an update
C6_Witness ==
    /\ spc = "eval"
    /\ Head(rows).initial_mc_usd = 0
    /\ sl.mc > 0
    /\ \E m \in Mints : HasMint(ledger, m) /\ LastMultiple(ledger, m) >= 2


\* C7: a transport/lookup error while processing one candidate event (the
\* transaction fetch, the supply lookup, the holder lookup, the ledger write)
\* only skips that event: the discovery task does not end.
C7_ItemFailureSkipsEvent ==
    [][(dpc \in {"derive", "supply", "holders", "upsert"}) => (dpc' # "raised")]_vars

InSweep == {"select", "price", "supply", "eval", "update"}

\* C8: an error raised during a sweep (ledger read, supply lookup,
\* last_multiple write) aborts that sweep only: the error is logged, the
\* scanner sleeps and its next step starts a new sweep; the loop never ends
\* because of a sweep error.
C8_SweepErrorAbortsOnlyThatSweep ==
    [][/\ (spc \in InSweep /\ spc' \notin InSweep) =>
            \/ spc' = "sleep"
            \/ spc' = "cancelled" /\ dpc = "raised"
       /\ sweep_aborted' /\ ~sweep_aborted =>
            /\ spc \in {"select", "supply", "eval", "update"}
            /\ spc' = "sleep"
            /\ ledger' = ledger
       /\ (spc = "sleep" /\ spc' # "sleep") =>
            \/ spc' = "select"
            \/ spc' = "cancelled" /\ dpc = "raised"
       /\ spc' \in InSweep \cup {"sleep", "cancelled"}
       /\ spc' = "cancelled" => dpc = "raised"]_vars

\* a sweep over a non-empty ledger was aborted by an error and the scanner sleeps
C8_Witness ==
    /\ spc = "sleep"
    /\ sweep_aborted
    /\ ledger # <<>>
    /\ dpc # "raised"

\* C9: a failure or end of the discovery task does not stop the scanner task.
C9_ScannerOutlivesDiscovery ==
    dpc = "raised" => spc # "cancelled"

\* C10: send_message never aborts its caller: without credentials it does
\* nothing, a failed delivery is swallowed; either way the admitted record is
\* in the ledger and the scanner goes on to persist last_multiple = hit.
C10_SendMessageNeverAborts ==
    [][/\ (spc = "eval" /\ sweep_sent' # sweep_sent) =>
            /\ spc' = "update"
            /\ ~sweep_aborted'
            /\ rows' = rows
            /\ ~settings.telegram_set => sl'.sent = "noop"
            /\ sl'.sent \in {"noop", "posted", "swallowed"}
       /\ (dpc = "send" /\ dpc' # "send") =>
            /\ dpc' = "recv"
            /\ HasMint(ledger', dl.mint)
            /\ adm_sent'[dl.mint] = adm_sent[dl.mint] + 1
       /\ (spc = "update" /\ sl.sent \in {"noop", "swallowed"}
             /\ spc' \in {"price", "sleep"} /\ ~sweep_aborted') =>
            LastMultiple(ledger', Head(rows).mint) = sl.hit]_vars

\* the delivery of a milestone notification failed and the scanner is about to
\* persist the hit for a mint whose admission was notified
C10_Witness ==
    /\ spc = "update"
    /\ sl.sent = "swallowed"
    /\ HasMint(ledger, Head(rows).mint)
    /\ adm_sent[Head(rows).mint] >= 1

\* C11: between sweeps the stored last_multiple of a mint equals the largest
\* hit a milestone notification carried for it, also after a sweep that an
\* error aborted: whenever the scanner leaves a sweep for its sleep from the
\* point where it holds a hit it has just posted, the ledger stores that hit.
C11_LastMultipleIsLargestNotified ==
    [][(spc = "update" /\ sl.sent = "posted" /\ spc' = "sleep") =>
          /\ sweep_sent[Head(rows).mint] >= 1
          /\ LastMultiple(ledger', Head(rows).mint) = sl.hit]_vars

Keywords == { KwInitialize, KwCreatePool, KwInitPool }

\* some entry of the log list is a string that holds a keyword in any case
HasKeywordLine(msg) ==
    /\ msg.logs = "list"
    /\ \E i \in 1..Len(msg.lines) :
         /\ msg.lines[i].isstr
         /\ \E kw \in Keywords : Contains(Lower(msg.lines[i].text), kw)

\* C12: whenever _extract_pool_creation returns for an event, it returns the
\* pool-creation dict, carrying the event's signature, exactly when some string
\* entry of the event's logs contains "initialize", "create_pool" or
\* "init_pool" in any case, and None otherwise; the step touches neither the
\* ledger nor the notification counts nor the settings.
C12_ExtractIffKeyword ==
    [][(nrecv' = nrecv + 1 /\ found'.ret \in {"None", "dict"}) =>
          /\ (found'.ret = "dict") <=> HasKeywordLine(ws_msg')
          /\ found'.ret = "dict" => found'.signature = ws_msg'.signature
          /\ found'.ret = "None" => found'.signature = NoSignature
          /\ ledger' = ledger
          /\ adm_sent' = adm_sent
          /\ settings' = settings]_vars

\* the only matching entry is an upper-case keyword that follows a non-string
\* entry holding "initialize", and the decision carries SIG1
C12_Witness ==
    /\ ws_msg.logs = "list"
    /\ ws_msg.lines = << LineListInitialize, LineInitPoolUpper >>
    /\ found = PoolCreation("SIG1")
    /\ dpc = "derive"

\* not valid JSON, valid JSON that is not an object, or a logsNotification
\* whose params, result, value or logs is missing, null or of the wrong type
Malformed(msg) ==
    \/ msg.json # "object"
    \/ /\ msg.method = "logsNotification"
       /\ \/ msg.params # "object"
          \/ msg.result # "object"
          \/ msg.value # "object"
          \/ msg.logs # "list"

\* C13: a malformed or unparseable message is dropped silently: the step that
\* receives it yields no pool candidate, raises nothing out of
\* watch_new_pools, and leaves pool_listener waiting for the next message.
C13_MalformedDroppedSilently ==
    [][(nrecv' = nrecv + 1 /\ Malformed(ws_msg')) =>
          /\ dpc' = "recv"
          /\ found'.ret \in {"not_called", "None"}]_vars

MintsOf(balances) == { balances[i] : i \in 1..Len(balances) }

\* positions of the post-balance listing whose mint is not a pre-balance mint
NewPositions(tx) == { i \in 1..Len(tx.post) : tx.post[i] \notin MintsOf(tx.pre) }

\* C14: right after the transaction lookup answered, process_new_token holds
\* the mint at the lowest position of the post-balance listing that does not
\* occur among the pre-balance mints; it has skipped the event (no mint) when
\* the transaction is not found, has no metadata, or has no such position, in
\* particular when the post and pre mint sets are equal.
C14_FirstNewPostMint ==
    answer.kind = "tx" =>
        LET tx == answer.tx
            resolved == tx.found /\ tx.meta /\ NewPositions(tx) # {}
        IN /\ resolved =>
                /\ dpc = "price"
                /\ dl.mint = tx.post[CHOOSE i \in NewPositions(tx) :
                                        \A j \in NewPositions(tx) : i <= j]
           /\ ~resolved => dpc = "recv" /\ dl.mint = NoMint
           /\ (tx.found /\ tx.meta /\ MintsOf(tx.post) = MintsOf(tx.pre)) => dpc = "recv"

\* two new mints in the post-balance listing: the first listed one was taken
C14_Witness ==
    /\ answer.kind = "tx"
    /\ answer.tx.pre = <<>>
    /\ answer.tx.post = << "MINT2", "MINT1" >>
    /\ dl.mint = "MINT2"
    /\ dpc = "price"

RemoveAt(s, i) == SubSeq(s, 1, i - 1) \o SubSeq(s, i + 1, Len(s))

\* the sum of the n largest entries of s
RECURSIVE SumLargest(_, _)
SumLargest(s, n) ==
    IF n = 0 \/ s = <<>> THEN 0
    ELSE LET i == CHOOSE i \in 1..Len(s) : \A j \in 1..Len(s) : s[i] >= s[j]
         IN s[i] + SumLargest(RemoveAt(s, i), n - 1)

\* C15: for every holder-balance list the lookup answers with, in any order,
\* the concentration process_new_token holds is (sum of the ten largest
\* balances / sum of all balances) * 100, and 0 when the total is zero; it is
\* between 0 and 100.
C15_TenLargestShare ==
    answer.kind = "holders" =>
        LET amounts == answer.amounts
            total == SumSeq(amounts)
        IN /\ total = 0 => dl.top10.num = 0
           /\ total > 0 =>
                dl.top10.num * total = SumLargest(amounts, TopN) * 100 * dl.top10.den
           /\ 0 <= dl.top10.num
           /\ dl.top10.num <= 100 * dl.top10.den

\* the scenario's message: a well-formed notification with signature SIG1
\* whose logs hold the line "Program log: initialize2"
ScenarioMsg(msg) ==
    /\ ~Malformed(msg)
    /\ msg.method = "logsNotification"
    /\ \E i \in 1..Len(msg.lines) : msg.lines[i] = LineInitialize2
    /\ msg.signature = "SIG1"

\* the supply lookup answers the scenario's supply for the scenario's price
ScenarioSupplyStep ==
    /\ dpc = "supply"
    /\ dl.price = ScenarioPrice
    /\ answer'.kind = "supply"
    /\ answer'.supply = ScenarioSupplyAnswer

\* The scenario with the market cap m (in 1/PriceScale USD): the message
\* passes the filter with its signature; the supply step computes m; at the
\* gates m is rejected against the minimum of 15000 USD with no ledger write
\* and no notification.
ScenarioWithMarketCap(m) ==
    /\ (nrecv' = nrecv + 1 /\ ScenarioMsg(ws_msg')) =>
          /\ found' = PoolCreation("SIG1")
          /\ dpc' = "derive"
    /\ ScenarioSupplyStep =>
          /\ dl'.mc = Usd(m)
          /\ dpc' = "holders"
    /\ (dpc = "gates" /\ dpc' # "gates" /\ dl.mc = Usd(m)
          /\ settings.min_market_cap_usd = ScenarioMinCap) =>
          /\ dpc' = "recv"
          /\ ledger' = ledger
          /\ ledger = <<>>
          /\ adm_sent' = adm_sent

\* C16 as stated: in the end-to-end scenario (log line "Program log:
\* initialize2", signature SIG1, mint MINT1, price 0.002, supply
\* 500_000_000_000 at 9 decimals, minimum 15000) the computed market cap is
\* 1000.0 USD and the mint is rejected with no ledger write and no notification.
C16_ScenarioAsStated ==
    [][ScenarioWithMarketCap(1000 * PriceScale)]_vars

\* C16, amended: in the same scenario the computed market cap is 1.0 USD
\* (500 tokens at 0.002), and the mint is rejected with no ledger write and no
\* notification.
C16_ScenarioRejected ==
    [][ScenarioWithMarketCap(PriceScale)]_vars

\* the scenario has reached the gates: SIG1 passed the filter, MINT1 was
\* resolved, the price is 0.002, the market cap 1.0 USD, the minimum 15000 USD
C16_Witness ==
    /\ dpc = "gates"
    /\ found = PoolCreation("SIG1")
    /\ dl.mint = "MINT1"
    /\ dl.price = ScenarioPrice
    /\ dl.mc = Usd(PriceScale)
    /\ dl.mc = compute_market_cap_usd(ScenarioSupplyAnswer.amount,
                                      ScenarioSupplyAnswer.decimals, ScenarioPrice)
    /\ settings.min_market_cap_usd = ScenarioMinCap
    /\ ledger = <<>>
    /\ adm_sent = [m \in Mints |-> 0]

InFlight == {"derive", "price", "supply", "holders", "gates", "upsert", "send"}
Resolved == {"price", "supply", "holders", "gates", "upsert", "send"}

\* C17: the discovery task handles one candidate event at a time.  An event
\* is taken from the stream only while no process_new_token is in flight; an
\* execution in flight keeps its mint until it has finished; and while an
\* admission waits between its steps the only changes to the ledger are the
\* scanner's last_multiple updates: no other admission inserts a record,
\* touches a baseline or sends an admission notification.
C17_OneEventAtATime ==
    [][/\ nrecv' # nrecv =>
            /\ dpc = "recv"
            /\ dl = NoLocals
            /\ nrecv' = nrecv + 1
            /\ UNCHANGED << ledger, adm_sent >>
       /\ (dpc \in Resolved /\ dpc' \in Resolved) =>
            /\ dl.mint \in Mints
            /\ dl'.mint = dl.mint
       /\ (dpc \in InFlight /\ dpc' = dpc) =>
            /\ dl' = dl
            /\ adm_sent' = adm_sent
            /\ Len(ledger') = Len(ledger)
            /\ \A i \in 1..Len(ledger) :
                 /\ ledger'[i].mint = ledger[i].mint
                 /\ ledger'[i].initial_mc_usd = ledger[i].initial_mc_usd
            /\ ledger' # ledger => spc = "update"
       /\ adm_sent' # adm_sent =>
            /\ dpc = "send"
            /\ dpc' \notin InFlight]_vars

\* the second admission of a mint is between its ledger write and its
\* notification while the scanner is about to update that mint's record
C17_Witness ==
    /\ dpc = "send"
    /\ adm_sent[dl.mint] = 1
    /\ nrecv = 2
    /\ spc = "update"
    /\ Head(rows).mint = dl.mint

\* C18: admission notifications are not deduplicated.  Every event that
\* passed both gates and whose ledger write completed makes exactly one
\* admission send_message call for its mint, whether or not the mint was in
\* the ledger already; the calls for a mint add up over its deliveries, and a
\* record, once written, keeps its baseline, while a re-admission leaves its
\* last_multiple as it found it.
C18_NoDedupOfAdmissions ==
    [][/\ (dpc = "upsert" /\ dpc' # "upsert") =>
            /\ dpc' \in {"send", "raised"}
            /\ dpc' = "send" =>
                 /\ HasMint(ledger', dl.mint)
                 /\ HasMint(ledger, dl.mint) =>
                      LastMultiple(ledger', dl.mint) = LastMultiple(ledger, dl.mint)
       /\ (dpc = "send" /\ dpc' # "send") =>
            /\ dpc' = "recv"
            /\ adm_sent' = [adm_sent EXCEPT ![dl.mint] = adm_sent[dl.mint] + 1]
            /\ ledger' = ledger
       /\ \A m \in Mints :
            /\ adm_sent'[m] >= adm_sent[m]
            /\ HasMint(ledger, m) =>
                 /\ HasMint(ledger', m)
                 /\ Baseline(ledger', m) = Baseline(ledger, m)]_vars

\* one mint was delivered twice and notified twice; its single record still
\* has last_multiple 1
C18_Witness ==
    \E m \in Mints :
        /\ adm_sent[m] = 2
        /\ nrecv = 2
        /\ dpc = "recv"
        /\ settings.telegram_set
        /\ Len(ledger) = 1
        /\ LastMultiple(ledger, m) = 1

\* C19: with the scanner fairly scheduled, a record with baseline > 0 whose
\* own price and supply lookups always succeed and whose floor(ratio) stays at
\* or above its target is eventually notified and gets its last_multiple
\* raised, whatever the lookups of the other records do.
C19_HealthyRecordEventuallyNotified ==
    (HasMint(ledger, HealthyMint) /\ Baseline(ledger, HealthyMint) > 0)
        ~> (HasMint(ledger, HealthyMint) /\ LastMultiple(ledger, HealthyMint) >= 2)

\* the steps of one admission: the write comes before the send_message call,
\* a failed write ends the event without a call, and no step rewrites the
\* baseline of a record
AdmissionSteps ==
    /\ adm_sent' # adm_sent =>
          /\ dpc = "send"
          /\ HasMint(ledger, dl.mint)
          /\ dl.mc >= Usd(settings.min_market_cap_usd)
          /\ adm_sent' = [adm_sent EXCEPT ![dl.mint] = adm_sent[dl.mint] + 1]
    /\ (dpc = "upsert" /\ dpc' = "send") => HasMint(ledger', dl.mint)
    /\ (dpc = "upsert" /\ dpc' # "upsert" /\ dpc' # "send") =>
          /\ dpc' = "raised"
          /\ ledger' = ledger
          /\ adm_sent' = adm_sent
    /\ dpc = "raised" => (dpc' = "raised" /\ adm_sent' = adm_sent)
    /\ \A m \in Mints :
          HasMint(ledger, m) =>
            (HasMint(ledger', m) /\ Baseline(ledger', m) = Baseline(ledger, m))

\* C20 as stated: in every reachable state a mint with an admission
\* notification has a record in the ledger whose baseline is at least
\* min_market_cap_usd; the notification follows the completed write, and a
\* failed write is followed by no notification for its event.
C20_NotifiedBaselineAtLeastMin ==
    /\ [](\A m \in Mints :
            adm_sent[m] >= 1 =>
              /\ HasMint(ledger, m)
              /\ Baseline(ledger, m) >= Usd(settings.min_market_cap_usd))
    /\ [][AdmissionSteps]_vars

\* C20, amended: in every reachable state a mint with an admission
\* notification has a record in the ledger; a record inserted during this run
\* has the admitted market cap, at least min_market_cap_usd, as its baseline,
\* and a record that was in the table already keeps the baseline it had; the
\* notification follows the completed write, and a failed write is followed
\* by no notification for its event.
C20_NotifiedAfterLedgerWrite ==
    /\ [](\A m \in Mints : adm_sent[m] >= 1 => HasMint(ledger, m))
    /\ [][/\ AdmissionSteps
          /\ \A i \in (Len(ledger) + 1)..Len(ledger') :
                /\ dpc = "upsert"
                /\ ledger'[i].mint = dl.mint
                /\ ledger'[i].initial_mc_usd = dl.mc
                /\ ledger'[i].initial_mc_usd >= Usd(settings.min_market_cap_usd)]_vars

\* both mints have been notified under a positive threshold: MINT1's record is
\* the one of the earlier run, MINT2's was inserted by this run at or above
\* the threshold
C20_Witness ==
    /\ settings.min_market_cap_usd > 0
    /\ Len(ledger) = 2
    /\ ledger[1].mint = "MINT1"
    /\ ledger[2].mint = "MINT2"
    /\ adm_sent["MINT1"] >= 1
    /\ adm_sent["MINT2"] >= 1
    /\ ledger[1].initial_mc_usd < Usd(settings.min_market_cap_usd)
    /\ ledger[2].initial_mc_usd >= Usd(settings.min_market_cap_usd)

=============================================================================
